---- MODULE Spec2Model ----
(***************************************************************************)
(* GestureController (new_gesture_control.py): the MJPEG ingestion loop,   *)
(* the cooldown-gated gesture dispatch, the single-slot frame queue, the   *)
(* start/stop lifecycle, the ESP32 display channel and the gesture/action  *)
(* registry.                                                               *)
(*                                                                         *)
(* Time is counted in seconds.                                             *)
(***************************************************************************)
EXTENDS Integers, Sequences, FiniteSets, TLC

(***************************************************************************)
(* Bounds of the model                                                     *)
(***************************************************************************)
\* ingestion loops alive at the same time (and presentation loops)
MaxLoops == 2
\* chunks delivered by the camera, over all connections of the pipeline
MaxChunks == 2
\* clock ticks after the program started
MaxTime == 2

\* calls of send_to_esp32_display that wait for the network at the same time
MaxSends == 2
\* images in a prepared stream
MaxImages == 3
\* bytes in one chunk of a prepared stream (the program asks for 2048)
MaxChunkLen == 10

(***************************************************************************)
(* Program constants                                                       *)
(***************************************************************************)
\* b'\xff\xd8' and b'\xff\xd9'
FF == 255
D8 == 216
D9 == 217
\* self.gesture_cooldown = 1.0
DefaultCooldown == 1
\* queue.Queue(maxsize=1)
QueueMaxSize == 1

\* time.time() when the program starts: far above any cooldown, so that
\* now - 0 > gesture_cooldown holds for the first detection
Epoch == DefaultCooldown + 2

(***************************************************************************)
(* Gestures and actions                                                    *)
(***************************************************************************)
DEFAULT_GESTURE_ACTIONS ==
    [g \in {"thumbs_up", "peace", "fist", "open_palm", "pointing", "ok_sign", "pinch"} |->
        CASE g = "thumbs_up" -> "translate"
          [] g = "peace"     -> "repeat"
          [] g = "fist"      -> "stop"
          [] g = "open_palm" -> "cycle_language"
          [] g = "pointing"  -> "send_msg"
          [] OTHER           -> "none"]

AVAILABLE_ACTIONS ==
    {"translate", "repeat", "stop", "cycle_language", "send_msg",
     "show_text_on_esp32", "speak_custom_text", "change_source_language",
     "reset_app", "none"}

Gestures == DOMAIN DEFAULT_GESTURE_ACTIONS

(***************************************************************************)
(* Byte strings                                                            *)
(***************************************************************************)
\* bytes.find(pat) for a two-byte pattern: the lowest 0-based index, or -1
Find(s, p1, p2) ==
    LET hits == {i \in 1..(Len(s) - 1) : s[i] = p1 /\ s[i + 1] = p2}
    IN  IF hits = {} THEN -1
        ELSE (CHOOSE i \in hits : \A j \in hits : i <= j) - 1

\* s[a:b] of Python for a >= 0, b >= 0
Slice(s, a, b) ==
    LET hi == IF b > Len(s) THEN Len(s) ELSE b
    IN  IF a >= hi THEN <<>> ELSE SubSeq(s, a + 1, hi)

\* s[a:] of Python for a >= 0
SliceFrom(s, a) == Slice(s, a, Len(s))

\* one encoded image whose content is the byte p
Jpeg(p) == <<FF, D8, p, FF, D9>>

\* cv2.imdecode: the image content, or <<>> (None) for bytes that are not
\* one start marker, marker-free content and one end marker
Decode(jpg) ==
    LET n == Len(jpg)
    IN  IF /\ n >= 5
           /\ jpg[1] = FF /\ jpg[2] = D8
           /\ jpg[n - 1] = FF /\ jpg[n] = D9
           /\ \A i \in 3..(n - 2) : jpg[i] # FF
        THEN SubSeq(jpg, 3, n - 2)
        ELSE <<>>

(***************************************************************************)
(* detect_gesture. Coordinates are counted in hundredths of the image.     *)
(***************************************************************************)
\* thumb_index_dist < 0.05 and thumb_index_dist < 0.08
OkSignDist == 5
PinchDist == 8

\* landmarks[n] of Python
Landmark(l, n) == l[n + 1]

\* a hand of 21 landmarks: the five fingertips where the parameters say, every
\* other landmark in the middle of the image
Hand(thumb_y, index_y, middle_y, ring_y, pinky_y, index_x) ==
    [k \in 1..21 |->
        CASE k - 1 = 4  -> [x |-> 50, y |-> thumb_y]
          [] k - 1 = 8  -> [x |-> index_x, y |-> index_y]
          [] k - 1 = 12 -> [x |-> 50, y |-> middle_y]
          [] k - 1 = 16 -> [x |-> 50, y |-> ring_y]
          [] k - 1 = 20 -> [x |-> 50, y |-> pinky_y]
          [] OTHER      -> [x |-> 50, y |-> 50]]

\* lines 678-682: a finger is up when its tip is above its lower joint
thumb_up(l)  == Landmark(l, 4).y < Landmark(l, 3).y
index_up(l)  == Landmark(l, 8).y < Landmark(l, 5).y
middle_up(l) == Landmark(l, 12).y < Landmark(l, 9).y
ring_up(l)   == Landmark(l, 16).y < Landmark(l, 13).y
pinky_up(l)  == Landmark(l, 20).y < Landmark(l, 17).y

\* line 683
fingers_up(l) ==
    Cardinality({f \in {"index", "middle", "ring", "pinky"} :
        CASE f = "index"  -> index_up(l)
          [] f = "middle" -> middle_up(l)
          [] f = "ring"   -> ring_up(l)
          [] OTHER        -> pinky_up(l)})

\* line 694, squared: np.sqrt(d) < c exactly when d < c * c
thumb_index_dist2(l) ==
    (Landmark(l, 4).x - Landmark(l, 8).x) * (Landmark(l, 4).x - Landmark(l, 8).x)
    + (Landmark(l, 4).y - Landmark(l, 8).y) * (Landmark(l, 4).y - Landmark(l, 8).y)

\* lines 684-693: the rules that look at the fingers only, in their order
FingerRules(l) ==
    IF thumb_up(l) /\ ~index_up(l) /\ ~middle_up(l) /\ ~ring_up(l) /\ ~pinky_up(l)
    THEN "thumbs_up"
    ELSE IF index_up(l) /\ middle_up(l) /\ ~ring_up(l) /\ ~pinky_up(l)
    THEN "peace"
    ELSE IF fingers_up(l) = 0 /\ ~thumb_up(l)
    THEN "fist"
    ELSE IF fingers_up(l) = 4 /\ thumb_up(l)
    THEN "open_palm"
    ELSE IF index_up(l) /\ ~middle_up(l) /\ ~ring_up(l) /\ ~pinky_up(l)
    THEN "pointing"
    ELSE "None"

\* lines 694-699: the rules that look at the thumb-index distance
DistanceRules(l) ==
    IF thumb_index_dist2(l) < OkSignDist * OkSignDist /\ middle_up(l) /\ ring_up(l)
    THEN "ok_sign"
    ELSE IF thumb_index_dist2(l) < PinchDist * PinchDist
            /\ ~middle_up(l) /\ ~ring_up(l)
    THEN "pinch"
    ELSE "None"

\* the distance rules tried before the finger rules
DistanceRulesFirst(l) ==
    IF DistanceRules(l) # "None" THEN DistanceRules(l) ELSE FingerRules(l)

\* the condition of the if statement that returns gesture (lines 684-697)
Satisfies(l, gesture) ==
    CASE gesture = "thumbs_up" ->
            thumb_up(l) /\ ~index_up(l) /\ ~middle_up(l) /\ ~ring_up(l)
                /\ ~pinky_up(l)
      [] gesture = "peace" ->
            index_up(l) /\ middle_up(l) /\ ~ring_up(l) /\ ~pinky_up(l)
      [] gesture = "fist" -> fingers_up(l) = 0 /\ ~thumb_up(l)
      [] gesture = "open_palm" -> fingers_up(l) = 4 /\ thumb_up(l)
      [] gesture = "pointing" ->
            index_up(l) /\ ~middle_up(l) /\ ~ring_up(l) /\ ~pinky_up(l)
      [] gesture = "ok_sign" ->
            thumb_index_dist2(l) < OkSignDist * OkSignDist
                /\ middle_up(l) /\ ring_up(l)
      [] gesture = "pinch" ->
            thumb_index_dist2(l) < PinchDist * PinchDist
                /\ ~middle_up(l) /\ ~ring_up(l)
      [] OTHER -> FALSE

\* the order of the if statements in detect_gesture
RuleOrder ==
    <<"thumbs_up", "peace", "fist", "open_palm", "pointing", "ok_sign",
      "pinch">>

\* the gestures whose condition the hand satisfies
Matching(l) == {g \in Gestures : Satisfies(l, g)}

\* a classifier that gives "None" to a hand that satisfies two conditions
TieIsNone(l) ==
    IF Cardinality(Matching(l)) > 1 THEN "None"
    ELSE IF FingerRules(l) # "None" THEN FingerRules(l)
    ELSE DistanceRules(l)

\* detect_gesture(landmarks): the first rule that matches; landmarks[4] of
\* a hand with fewer landmarks raises IndexError
detect_gesture(l) ==
    IF Len(l) < 21 THEN "IndexError"
    ELSE IF FingerRules(l) # "None" THEN FingerRules(l)
    ELSE DistanceRules(l)

\* the hand an image of the model shows: a fist, a pointing hand, an ok sign
HandIn(content) ==
    CASE content = 1 -> Hand(60, 60, 60, 60, 60, 50)
      [] content = 2 -> Hand(60, 40, 60, 60, 60, 50)
      [] OTHER       -> Hand(40, 40, 40, 40, 60, 53)

\* what detect_gesture returns for the hands of the images
GestureOfHand == [content \in {1, 2, 3} |-> detect_gesture(HandIn(content))]

\* lines 646-652: hands.process finds a hand in the images with content 1,
\* 2 and 3, and detect_gesture classifies it; else gesture stays "None"
GestureOfFrame(frame) ==
    IF frame[1] \in DOMAIN GestureOfHand THEN GestureOfHand[frame[1]]
    ELSE "None"

\* image contents the camera sends in the pipeline specification
FrameBytes == {0, 1}

\* bytes between two markers that are no image
CorruptJpeg == <<FF, D8, FF, D9>>
\* a chunk that opens an image and does not close it
OpenJpeg == <<FF, D8, 0>>

(***************************************************************************)
(* State                                                                   *)
(***************************************************************************)
VARIABLES
    is_running,         \* self.is_running
    last_gesture_time,  \* self.last_gesture_time
    gesture_cooldown,   \* self.gesture_cooldown
    current_gesture,    \* self.current_gesture
    frame_queue,        \* self.frame_queue, a queue.Queue(maxsize=1)
    gesture_actions,    \* self.gesture_actions
    config_file,        \* gesture_config.json
    ever_set,           \* history: the keys update_gesture_mapping has assigned
    display_available,  \* self.display_available
    display_method_var, \* self.display_method_var, the combobox's variable
    display_method,     \* self.display_method
    stream_threads,     \* the live threads running process_esp32_stream
    display_threads,    \* how many live threads run update_display
    action_threads,     \* the live threads running execute_gesture_action
    sends,              \* send_to_esp32_display calls waiting for the network
    clock,              \* time.time() when it was last read
    chunks_sent,        \* chunks the camera has delivered so far
    stream,             \* bytes a prepared stream has still to deliver
    images,             \* history: how many images the prepared stream held
    emitted,            \* history: frames decoded so far, and the last one
    breaker,            \* history: transport failures and settings updates
    landmarks,          \* the hand landmarks handed to detect_gesture
    classified,         \* what detect_gesture returned for them
    last_event          \* history: what the step just taken did

cooldown_vars == <<last_gesture_time, gesture_cooldown, current_gesture>>
camera_vars   == <<chunks_sent, stream, images>>
channel_vars  == <<display_available, display_method_var, display_method,
                   sends, breaker>>
registry_vars == <<gesture_actions, config_file, ever_set>>
hand_vars     == <<landmarks, classified>>

vars == <<is_running, frame_queue, stream_threads, display_threads,
          action_threads, clock, emitted, last_event, cooldown_vars,
          camera_vars, channel_vars, registry_vars, hand_vars>>

\* a step that is none of the events the history records
NoEvent == [event |-> "none"]

\* a thread that has just been handed process_esp32_stream; stopped and
\* bound are history: stop_stream has returned since the thread was
\* started, and the action the registry gave the gesture when line 654
\* was evaluated
NewStreamThread ==
    [pc |-> "iter", bytes_data |-> <<>>, chunk |-> <<>>, small |-> <<>>,
     gesture |-> "None", now |-> 0, cool |-> 0, stopped |-> FALSE,
     bound |-> "none"]

RECURSIVE DumpItems(_, _)
\* the members of a JSON object for the keys of d, one <<key, value>> each
DumpItems(d, keys) ==
    IF keys = {} THEN <<>>
    ELSE LET k == CHOOSE x \in keys : TRUE
         IN  <<<<k, d[k]>>>> \o DumpItems(d, keys \ {k})

\* json.dump of a dict: the text of a JSON object, as its members
json_dump(d) == DumpItems(d, DOMAIN d)

\* json.load of the text of a JSON object: of members with the same name
\* the last one counts
json_load(text) ==
    [k \in {text[n][1] : n \in DOMAIN text} |->
        LET last == CHOOSE n \in DOMAIN text :
                       /\ text[n][1] = k
                       /\ \A m \in DOMAIN text : text[m][1] = k => m <= n
        IN  text[last][2]]

\* a gesture_config.json that holds the members text, one that does not
\* exist, and one that json.load cannot read as a mapping
JsonFile(text) == [kind |-> "json", text |-> text]
AbsentFile == [kind |-> "absent"]
CorruptFile == [kind |-> "corrupt"]

\* a merge in which the defaults win over the file
LoadDefaultsWin(file) ==
    IF file.kind = "json"
    THEN LET cfg == json_load(file.text)
         IN  [k \in DOMAIN cfg \cup Gestures |->
                IF k \in Gestures THEN DEFAULT_GESTURE_ACTIONS[k]
                ELSE cfg[k]]
    ELSE DEFAULT_GESTURE_ACTIONS

\* load_gesture_config: the file's mapping with the missing default gestures
\* filled in; the defaults when there is no file or it cannot be read
load_gesture_config(file) ==
    IF file.kind = "json"
    THEN LET cfg == json_load(file.text)
         IN  [k \in DOMAIN cfg \cup Gestures |->
                IF k \in DOMAIN cfg THEN cfg[k]
                ELSE DEFAULT_GESTURE_ACTIONS[k]]
    ELSE DEFAULT_GESTURE_ACTIONS

\* the state __init__ leaves when it finds file as gesture_config.json
Constructed(file) ==
    /\ is_running = FALSE
    /\ last_gesture_time = 0
    /\ gesture_cooldown = DefaultCooldown
    /\ current_gesture = "None"
    /\ frame_queue = <<>>
    /\ gesture_actions = load_gesture_config(file)
    /\ config_file = file
    /\ ever_set = {}
    /\ display_available = TRUE
    /\ display_method_var = "WebSocket"
    /\ display_method = "WebSocket"
    /\ stream_threads = <<>>
    /\ display_threads = 0
    /\ action_threads = <<>>
    /\ sends = <<>>
    /\ clock = Epoch
    /\ chunks_sent = 0
    /\ stream = <<>>
    /\ images = 0
    /\ emitted = [count |-> 0, last |-> <<>>]
    /\ breaker = "closed"
    /\ landmarks = <<>>
    /\ classified = "None"
    /\ last_event = NoEvent

\* the program starts in a directory without gesture_config.json
Init == Constructed(AbsentFile)

\* dict.get(gesture, 'none')
RegistryGet(registry, gesture) ==
    IF gesture \in DOMAIN registry THEN registry[gesture] ELSE "none"

\* a thread that has returned is gone
Remove(threads, k) ==
    [n \in 1..(Len(threads) - 1) |->
        IF n < k THEN threads[n] ELSE threads[n + 1]]

(***************************************************************************)
(* Lifecycle: toggle_stream, start_stream, stop_stream                     *)
(***************************************************************************)
\* the probe never passes judgement on the camera
AlwaysPassed(reachable) == TRUE

\* lines 610-615: start_stream goes on past the probe only when requests.head
\* did not raise
ProbePassed(reachable) == reachable

\* start_stream, reached from toggle_stream when is_running is false
StartStream(reachable) ==
    /\ ~is_running
    /\ Len(stream_threads) < MaxLoops
    /\ display_threads < MaxLoops
    /\ IF ProbePassed(reachable)
       THEN /\ is_running' = TRUE
            /\ stream_threads' = Append(stream_threads, NewStreamThread)
            /\ display_threads' = display_threads + 1
       ELSE UNCHANGED <<is_running, stream_threads, display_threads>>
    /\ last_event' =
         [event   |-> "start",
          result  |-> IF reachable THEN "started" ELSE "ConnectionError",
          running |-> is_running',
          threads |-> (Len(stream_threads') - Len(stream_threads))
                        + (display_threads' - display_threads)]
    /\ UNCHANGED <<frame_queue, action_threads, clock, emitted,
                   cooldown_vars, camera_vars, channel_vars, registry_vars,
                   hand_vars>>

\* line 625, the one assignment of stop_stream; every loop alive now has
\* seen a stop() return
StopEffect(threads) ==
    /\ is_running' = FALSE
    /\ stream_threads' =
         [i \in DOMAIN threads |-> [threads[i] EXCEPT !.stopped = TRUE]]

\* stop_stream, reached from toggle_stream when is_running is true
StopStream ==
    /\ is_running
    /\ StopEffect(stream_threads)
    /\ last_event' = [event |-> "stop"]
    /\ UNCHANGED <<frame_queue, display_threads, action_threads, clock,
                   emitted, cooldown_vars, camera_vars, channel_vars,
                   registry_vars,
                   hand_vars>>

(***************************************************************************)
(* process_esp32_stream, the ingestion loop                                *)
(***************************************************************************)
\* lines 638-642: the image cut out of the buffer, and what stays behind
DemuxStep(bytes_data) ==
    LET a == Find(bytes_data, FF, D8)
        b == Find(bytes_data, FF, D9)
    IN  IF a # -1 /\ b # -1
        THEN [found |-> TRUE, jpg |-> Slice(bytes_data, a, b + 2),
              rest |-> SliceFrom(bytes_data, b + 2)]
        ELSE [found |-> FALSE, jpg |-> <<>>, rest |-> bytes_data]

\* a dispatch condition without the cooldown test
FireAnyGesture(gesture, now, last, cooldown) == gesture # "None"

\* line 654: the dispatch condition
ShouldFire(gesture, now, last, cooldown) ==
    gesture # "None" /\ (now - last) > cooldown

\* back to the for statement for the next chunk
NextIteration(t) ==
    [t EXCEPT !.pc = "iter", !.chunk = <<>>, !.small = <<>>,
              !.gesture = "None", !.now = 0, !.cool = 0, !.bound = "none"]

\* the loop ends: by break, by the end of the stream, or in the except
\* clause of lines 660-661, which logs and assigns nothing
Leave(i, how) ==
    /\ stream_threads' = Remove(stream_threads, i)
    /\ last_event' = [event |-> "exit", how |-> how, running |-> is_running]

\* line 635: with is_running false the loop breaks, else it takes the chunk
TakeChunk(i, chunk) ==
    IF is_running
    THEN /\ stream_threads' =
              [stream_threads EXCEPT ![i].pc = "body", ![i].chunk = chunk]
         /\ last_event' = NoEvent
    ELSE Leave(i, "break")

\* lines 634-636: the camera delivers a chunk that holds one image, and the
\* loop looks at is_running
Recv(i, chunk) ==
    /\ stream_threads[i].pc = "iter"
    /\ images = 0
    /\ chunks_sent < MaxChunks
    /\ chunks_sent' = chunks_sent + 1
    /\ TakeChunk(i, chunk)
    /\ UNCHANGED <<is_running, frame_queue, display_threads, action_threads,
                   clock, emitted, stream, images, cooldown_vars,
                   channel_vars, registry_vars,
                   hand_vars>>

\* lines 632 and 634: requests.get raises, or the socket fails while the
\* loop waits for a chunk
StreamError(i) ==
    /\ stream_threads[i].pc = "iter"
    /\ Leave(i, "error")
    /\ UNCHANGED <<is_running, frame_queue, display_threads, action_threads,
                   clock, emitted, cooldown_vars, camera_vars, channel_vars,
                   registry_vars,
                   hand_vars>>

\* the history counts frames up to one more than a prepared stream holds
CountUp(count) == IF count <= MaxImages THEN count + 1 ELSE count

\* lines 637-654: demux, decode, classify, read the clock, test the cooldown.
\* time.time() is read here and nowhere else: dt is the time that has passed
\* since it was last read. A jpg that does not decode makes cv2.resize raise
\* (an empty jpg makes cv2.imdecode raise), which ends the loop in the
\* except clause of lines 660-661. The history records the jpg that was cut
Body(i, dt) ==
    LET t  == stream_threads[i]
        d  == DemuxStep(t.bytes_data \o t.chunk)
        frame == Decode(d.jpg)
        g  == GestureOfFrame(frame)
        now == clock + dt
    IN  /\ t.pc = "body"
        /\ now <= Epoch + MaxTime
        /\ IF ~d.found
           THEN /\ dt = 0
                /\ stream_threads' =
                     [stream_threads EXCEPT ![i] =
                        NextIteration([t EXCEPT !.bytes_data = d.rest])]
                /\ last_event' = NoEvent
                /\ UNCHANGED <<emitted, clock>>
           ELSE IF frame = <<>>
           THEN /\ dt = 0
                /\ stream_threads' = Remove(stream_threads, i)
                /\ last_event' = [event |-> "exit", how |-> "frame_error",
                                  running |-> is_running, jpg |-> d.jpg]
                /\ UNCHANGED <<emitted, clock>>
           ELSE /\ stream_threads' =
                     [stream_threads EXCEPT ![i] =
                        [t EXCEPT !.bytes_data = d.rest, !.chunk = <<>>,
                                  !.small = frame, !.gesture = g,
                                  !.now = now, !.cool = gesture_cooldown,
                                  !.bound = RegistryGet(gesture_actions, g),
                                  !.pc = IF ShouldFire(g, now, last_gesture_time,
                                                       gesture_cooldown)
                                         THEN "fire" ELSE "empty"]]
                /\ emitted' = [count |-> CountUp(emitted.count), last |-> frame]
                /\ clock' = now
                /\ last_event' = [event |-> "emit", jpg |-> d.jpg]
        /\ UNCHANGED <<is_running, frame_queue, display_threads,
                       action_threads, cooldown_vars, camera_vars,
                       channel_vars, registry_vars,
                       hand_vars>>

\* the action is run by the caller, no thread is started
RunOnCaller(threads, gesture, bound) == threads

\* no thread is started while an action thread of the same gesture is alive
StartUnlessInFlight(threads, gesture, bound) ==
    IF \E k \in DOMAIN threads : threads[k].gesture = gesture THEN threads
    ELSE Append(threads, [gesture |-> gesture, pc |-> "start",
                          bound |-> bound])

\* line 657: threading.Thread(target=self.execute_gesture_action,
\* args=(gesture,)).start(); the thread is given the gesture, and bound is
\* history
StartThread(threads, gesture, bound) ==
    Append(threads, [gesture |-> gesture, pc |-> "start", bound |-> bound])

\* lines 655-657: record the fire and start the action thread
Fire(i) ==
    LET t == stream_threads[i]
    IN  /\ t.pc = "fire"
        /\ last_gesture_time' = t.now
        /\ current_gesture' = t.gesture
        /\ action_threads' = StartThread(action_threads, t.gesture, t.bound)
        /\ last_event' =
             [event |-> "fire", gesture |-> t.gesture, time |-> t.now,
              cooldown |-> t.cool, previous |-> last_gesture_time,
              previous_gesture |-> current_gesture,
              after_stop |-> t.stopped]
        /\ stream_threads' = [stream_threads EXCEPT ![i].pc = "empty"]
        /\ UNCHANGED <<is_running, frame_queue, display_threads, clock,
                       emitted, gesture_cooldown, camera_vars, channel_vars,
                       registry_vars,
                       hand_vars>>

\* line 658: frame_queue.empty(); when the queue holds a frame, line 659 is
\* skipped and small is never shown
CheckEmpty(i) ==
    LET t == stream_threads[i]
    IN  /\ t.pc = "empty"
        /\ stream_threads' =
             [stream_threads EXCEPT ![i] =
                IF frame_queue = <<>> THEN [t EXCEPT !.pc = "put"]
                ELSE NextIteration(t)]
        /\ last_event' = IF frame_queue = <<>> THEN NoEvent
                         ELSE [event |-> "drop", frame |-> t.small]
        /\ UNCHANGED <<is_running, frame_queue, display_threads,
                       action_threads, clock, emitted, cooldown_vars,
                       camera_vars, channel_vars, registry_vars,
                       hand_vars>>

\* line 659: frame_queue.put(small), which waits while the queue is full
Put(i) ==
    LET t == stream_threads[i]
    IN  /\ t.pc = "put"
        /\ Len(frame_queue) < QueueMaxSize
        /\ frame_queue' = Append(frame_queue, t.small)
        /\ stream_threads' = [stream_threads EXCEPT ![i] = NextIteration(t)]
        /\ last_event' = NoEvent
        /\ UNCHANGED <<is_running, display_threads, action_threads, clock,
                       emitted, cooldown_vars, camera_vars, channel_vars,
                       registry_vars,
                       hand_vars>>

(***************************************************************************)
(* update_display, the presentation loop                                   *)
(***************************************************************************)
\* lines 664-673, one turn of the loop: the test of is_running, then
\* frame_queue.get(timeout=0.1), which hands over a frame or raises
\* queue.Empty. The thread touches nothing shared between the two
DisplayPoll ==
    /\ display_threads > 0
    /\ IF is_running
       THEN /\ frame_queue' =
                 IF frame_queue = <<>> THEN <<>> ELSE Tail(frame_queue)
            /\ UNCHANGED display_threads
       ELSE /\ display_threads' = display_threads - 1
            /\ UNCHANGED frame_queue
    /\ last_event' = IF is_running /\ frame_queue # <<>>
                     THEN [event |-> "show", frame |-> Head(frame_queue)]
                     ELSE NoEvent
    /\ UNCHANGED <<is_running, stream_threads, action_threads, clock,
                   emitted, cooldown_vars, camera_vars, channel_vars,
                   registry_vars,
                   hand_vars>>

(***************************************************************************)
(* send_to_esp32_display and update_esp32_settings, the display channel    *)
(***************************************************************************)
DisplayMethods == {"WebSocket", "HTTP"}

\* how the network call of a send can end: requests.post can return a
\* response whose status is not 200, create_connection/send/close cannot
Outcomes(method) ==
    IF method = "HTTP" THEN {"ok", "bad_status", "exception"}
    ELSE {"ok", "exception"}

\* every outcome but success is handled by the except clause
AnyFailureRaised(method, outcome) == outcome # "ok"

\* lines 962-972 and 973-982: the outcomes that reach an except clause
Raised(method, outcome) == outcome = "exception"

\* an except clause that leaves the flag alone
NeverCleared(available, raised) == available

\* lines 972 and 982: an except clause clears the flag; no other line of
\* send_to_esp32_display assigns it
AvailableAfter(available, raised) == IF raised THEN FALSE ELSE available

\* what the call writes to the log
Report(method, outcome) ==
    CASE outcome = "ok" -> "updated"
      [] outcome = "bad_status" -> "http_error"
      [] OTHER -> "transport_failure"

\* the UI thread is inside a send: no other callback runs until it returns
UiBusy == \E n \in DOMAIN sends : sends[n].caller = "ui"

\* lines 957-961: the send returns at once when the flag is false, else it
\* reads the method and goes to the network
BeginSend(caller) ==
    /\ sends' = IF display_available
                THEN Append(sends, [caller |-> caller,
                                    method |-> display_method_var])
                ELSE sends
    /\ last_event' = [event |-> "send", attempted |-> display_available,
                      report |-> IF display_available THEN "sending"
                                 ELSE "unavailable",
                      breaker |-> breaker]

\* a send from the Send button (UI thread) or from a worker thread
\* (translate_and_speak, repeat_last_translation)
SendBegin(caller) ==
    /\ Len(sends) < MaxSends
    /\ ~UiBusy
    /\ BeginSend(caller)
    /\ UNCHANGED <<is_running, frame_queue, stream_threads, display_threads,
                   action_threads, clock, emitted, display_available,
                   display_method_var, display_method, breaker,
                   cooldown_vars, camera_vars, registry_vars,
                   hand_vars>>

\* lines 962-982: the network call of a send ends
SendNet(n, outcome) ==
    LET method == sends[n].method
        raised == Raised(method, outcome)
    IN  /\ outcome \in Outcomes(method)
        /\ display_available' = AvailableAfter(display_available, raised)
        /\ breaker' = IF raised THEN "tripped" ELSE breaker
        /\ sends' = Remove(sends, n)
        /\ last_event' =
             [event |-> "result", method |-> method, outcome |-> outcome,
              report |-> Report(method, outcome),
              before |-> display_available,
              available |-> display_available']
        /\ UNCHANGED <<is_running, frame_queue, stream_threads,
                       display_threads, action_threads, clock, emitted,
                       display_method_var, display_method, cooldown_vars,
                       camera_vars, registry_vars,
                       hand_vars>>

\* the user picks a method in the Display Method combobox
SelectMethod(method) ==
    /\ ~UiBusy
    /\ method # display_method_var
    /\ display_method_var' = method
    /\ last_event' = NoEvent
    /\ UNCHANGED <<is_running, frame_queue, stream_threads, display_threads,
                   action_threads, clock, emitted, display_available,
                   display_method, sends, breaker, cooldown_vars,
                   camera_vars, registry_vars,
                   hand_vars>>

\* update_esp32_settings, the Update button: address and method are taken
\* from the entries; display_available is not assigned
UpdateEsp32Settings ==
    /\ ~UiBusy
    /\ display_method' = display_method_var
    /\ breaker' = IF breaker = "closed" THEN "closed" ELSE "reset"
    /\ last_event' = [event |-> "settings"]
    /\ UNCHANGED <<is_running, frame_queue, stream_threads, display_threads,
                   action_threads, clock, emitted, display_available,
                   display_method_var, sends, cooldown_vars, camera_vars,
                   registry_vars,
                   hand_vars>>

(***************************************************************************)
(* execute_gesture_action, the action thread                               *)
(***************************************************************************)
\* the test for 'none' is missing: the action goes down the elif chain
InvokedUnchecked(action) == action

\* lines 706-707: with the action 'none' the thread returns before any
\* action body; else it runs the body of that action
Invoked(action) == IF action = "none" THEN "nothing" ELSE action

\* lines 702-729: the thread looks the action up and runs it. send_msg and
\* show_text_on_esp32 call send_to_esp32_display, reset_app calls
\* reset_application and with it stop_stream; the other actions touch
\* nothing of the pipeline, the channel or the registry
ExecuteGestureAction(k) ==
    LET action == RegistryGet(gesture_actions, action_threads[k].gesture)
    IN  /\ action_threads' = Remove(action_threads, k)
        /\ CASE action \in {"send_msg", "show_text_on_esp32"} ->
                  /\ Len(sends) < MaxSends
                  /\ BeginSend("worker")
                  /\ UNCHANGED <<is_running, stream_threads>>
             [] action = "reset_app" ->
                  /\ StopEffect(stream_threads)
                  /\ last_event' = [event |-> "stop"]
                  /\ UNCHANGED sends
             [] OTHER ->
                  /\ last_event' =
                       [event |-> "action",
                        gesture |-> action_threads[k].gesture,
                        action |-> action, body |-> Invoked(action),
                        bound |-> action_threads[k].bound]
                  /\ UNCHANGED <<is_running, stream_threads, sends>>
        /\ UNCHANGED <<frame_queue, display_threads, clock, emitted,
                       display_available, display_method_var, display_method,
                       breaker, cooldown_vars, camera_vars, registry_vars,
                       hand_vars>>

(***************************************************************************)
(* The pipeline: lifecycle, ingestion, dispatch, presentation              *)
(***************************************************************************)
Next ==
    \/ \E reachable \in BOOLEAN : StartStream(reachable)
    \/ StopStream
    \/ \E i \in DOMAIN stream_threads, p \in FrameBytes : Recv(i, Jpeg(p))
    \/ \E i \in DOMAIN stream_threads : StreamError(i)
    \/ \E i \in DOMAIN stream_threads, dt \in 0..MaxTime : Body(i, dt)
    \/ \E i \in DOMAIN stream_threads : Fire(i)
    \/ \E i \in DOMAIN stream_threads : CheckEmpty(i)
    \/ \E i \in DOMAIN stream_threads : Put(i)
    \/ DisplayPoll
    \/ \E k \in DOMAIN action_threads : ExecuteGestureAction(k)

Spec == Init /\ [][Next]_vars

(***************************************************************************)
(* Properties of the pipeline                                              *)
(***************************************************************************)
\* C1: a detection that follows a fire made at time t1 fires at time t2
\* only if t2 - t1 is at least the cooldown (last_gesture_time = 0 means
\* that nothing has fired yet).
C1_FireRespectsCooldown ==
    (last_event.event = "fire" /\ last_event.previous # 0)
        => last_event.time - last_event.previous >= last_event.cooldown

\* C3: the ingestion loop starts no action thread after a stop_stream that
\* was called while the loop was alive has returned.
C3_NoFireAfterStop ==
    last_event.event = "fire" => ~last_event.after_stop

\* C5: when the probe of start_stream fails, start_stream reports a
\* connection error, is_running is still false when it returns and it has
\* started neither an ingestion nor a presentation thread.
C5_ProbeFailureKeepsStopped ==
    (last_event.event = "start" /\ last_event.result = "ConnectionError")
        => /\ ~is_running
           /\ ~last_event.running
           /\ last_event.threads = 0

\* a start_stream whose probe failed has just returned, while a loop of an
\* earlier start is still alive
C5_Witness ==
    /\ last_event.event = "start"
    /\ last_event.result = "ConnectionError"
    /\ ~is_running
    /\ stream_threads # <<>>

\* C6: when the ingestion loop ends on an error of the stream, is_running
\* is false.
C6_StreamErrorStops ==
    (last_event.event = "exit" /\ last_event.how = "error")
        => ~is_running

\* C7: the frame queue never holds more than one frame, and no ingestion
\* loop waits in put() on a full queue.
C7_QueueNeverBlocks ==
    /\ Len(frame_queue) <= QueueMaxSize
    /\ \A i \in DOMAIN stream_threads :
          stream_threads[i].pc = "put" => Len(frame_queue) < QueueMaxSize

(***************************************************************************)
(* The frame source alone: one connection that delivers a prepared stream  *)
(***************************************************************************)
\* the k-th image of a prepared stream: its content shows no hand
StreamImage(k) == Jpeg(3 + k)

RECURSIVE Concatenated(_)
\* the first n images, one after the other
Concatenated(n) ==
    IF n = 0 THEN <<>> ELSE Concatenated(n - 1) \o StreamImage(n)

\* the state after a start_stream whose probe passed, with the camera about
\* to deliver n images and then to close the connection
InitDemux ==
    /\ is_running = TRUE
    /\ last_gesture_time = 0
    /\ gesture_cooldown = DefaultCooldown
    /\ current_gesture = "None"
    /\ frame_queue = <<>>
    /\ gesture_actions = DEFAULT_GESTURE_ACTIONS
    /\ config_file = AbsentFile
    /\ ever_set = {}
    /\ display_available = TRUE
    /\ display_method_var = "WebSocket"
    /\ display_method = "WebSocket"
    /\ stream_threads = <<NewStreamThread>>
    /\ display_threads = 1
    /\ action_threads = <<>>
    /\ sends = <<>>
    /\ clock = Epoch
    /\ chunks_sent = 0
    /\ \E n \in 1..MaxImages : images = n /\ stream = Concatenated(n)
    /\ emitted = [count |-> 0, last |-> <<>>]
    /\ breaker = "closed"
    /\ landmarks = <<>>
    /\ classified = "None"
    /\ last_event = NoEvent

\* lines 634-636: the next len bytes of the stream arrive as one chunk
RecvBytes(i, len) ==
    /\ stream_threads[i].pc = "iter"
    /\ len <= Len(stream)
    /\ stream' = SliceFrom(stream, len)
    /\ TakeChunk(i, Slice(stream, 0, len))
    /\ UNCHANGED <<is_running, frame_queue, display_threads, action_threads,
                   clock, emitted, chunks_sent, images, cooldown_vars,
                   channel_vars, registry_vars,
                   hand_vars>>

\* line 634: the camera has closed the connection, iter_content is exhausted
StreamEnd(i) ==
    /\ stream_threads[i].pc = "iter"
    /\ images > 0
    /\ stream = <<>>
    /\ Leave(i, "eof")
    /\ UNCHANGED <<is_running, frame_queue, display_threads, action_threads,
                   clock, emitted, cooldown_vars, camera_vars, channel_vars,
                   registry_vars,
                   hand_vars>>

NextDemux ==
    \/ \E i \in DOMAIN stream_threads, len \in 1..MaxChunkLen : RecvBytes(i, len)
    \/ \E i \in DOMAIN stream_threads : StreamEnd(i)
    \/ \E i \in DOMAIN stream_threads : Body(i, 0)
    \/ \E i \in DOMAIN stream_threads : CheckEmpty(i)
    \/ \E i \in DOMAIN stream_threads : Put(i)
    \/ DisplayPoll

SpecDemux == InitDemux /\ [][NextDemux]_vars

\* C4: the frames come out in the order of the images, and when the loop
\* has consumed the whole stream of N images it has decoded N frames.
C4_EveryImageEmitted ==
    /\ emitted.count > 0 => emitted.last = <<3 + emitted.count>>
    /\ (last_event.event = "exit" /\ last_event.how = "eof")
          => emitted.count = images

(***************************************************************************)
(* The display channel alone                                               *)
(***************************************************************************)
NextDisplay ==
    \/ \E caller \in {"ui", "worker"} : SendBegin(caller)
    \/ \E n \in DOMAIN sends, outcome \in {"ok", "bad_status", "exception"} :
          SendNet(n, outcome)
    \/ \E method \in DisplayMethods : SelectMethod(method)
    \/ UpdateEsp32Settings

SpecDisplay == Init /\ [][NextDisplay]_vars

\* C2: a send begun after a transport failure returns without a network
\* call as long as the settings have not been updated since the failure,
\* and a send begun after such an update goes to the network again.
C2_BreakerResets ==
    last_event.event = "send"
        => /\ last_event.breaker = "tripped" => ~last_event.attempted
           /\ last_event.breaker = "reset" => last_event.attempted

\* a WebSocket send has just ended in an exception
WsFailed ==
    /\ last_event.event = "result"
    /\ last_event.method = "WebSocket"
    /\ last_event.outcome = "exception"

\* C8: a WebSocket send that fails reports a transport failure and leaves
\* display_available false, and no step of the program turns a false
\* display_available into true.
C8_WsFailureClearsFlag ==
    [][/\ WsFailed' => /\ last_event'.report = "transport_failure"
                       /\ ~display_available'
       /\ ~display_available => ~display_available']_vars

\* a WebSocket send failed while the flag was still true
C8_Witness ==
    /\ WsFailed
    /\ last_event.before
    /\ ~display_available

\* an HTTP send has just got a response whose status is not 200
BadStatus ==
    /\ last_event.event = "result"
    /\ last_event.method = "HTTP"
    /\ last_event.outcome = "bad_status"

\* C9: an HTTP response with a status other than 200 is logged as an HTTP
\* error and leaves display_available as it was, so later sends still go
\* to the network.
C9_BadStatusKeepsFlag ==
    BadStatus => /\ last_event.report = "http_error"
                 /\ last_event.available = last_event.before
                 /\ display_available = last_event.before

\* an HTTP send got a bad status while the flag was true, and it still is
C9_Witness ==
    /\ BadStatus
    /\ last_event.before
    /\ display_available

\* C9 as stated: an HTTP response with a status other than 200 is handled
\* like a transport failure, display_available becomes false.
C9_BadStatusTrips ==
    BadStatus => /\ last_event.report = "transport_failure"
                 /\ ~display_available

(***************************************************************************)
(* The gesture/action registry and gesture_config.json                     *)
(***************************************************************************)
\* d[k] = v of a Python dict
SetItem(d, k, v) ==
    [x \in DOMAIN d \cup {k} |-> IF x = k THEN v ELSE d[x]]

\* d.update(e) of a Python dict
DictUpdate(d, e) ==
    [x \in DOMAIN d \cup DOMAIN e |-> IF x \in DOMAIN e THEN e[x] ELSE d[x]]

\* save_gesture_config: the file after the call; when open() or json.dump
\* raises the except clause logs it
Saved(registry, ok) ==
    IF ok THEN JsonFile(json_dump(registry)) ELSE config_file

\* the gestures and actions update_gesture_mapping is called with, one
\* gesture and one action unknown to the program among them
EditGestures == {"fist", "wave"}
EditActions == {"none", "reset_app", "dance"}

\* the files the program may find when it starts
InitialFiles ==
    {AbsentFile, CorruptFile,
     JsonFile(<<<<"fist", "none">>>>),
     JsonFile(<<<<"wave", "translate">>>>)}

\* update_gesture_mapping(gesture, action)
UpdateGestureMapping(gesture, action, ok) ==
    /\ gesture_actions' = SetItem(gesture_actions, gesture, action)
    /\ config_file' = Saved(gesture_actions', ok)
    /\ ever_set' = ever_set \cup {gesture}
    /\ last_event' =
         [event |-> "set", gesture |-> gesture, action |-> action,
          report |-> "mapped",
          changed |-> gesture_actions' # gesture_actions]
    /\ UNCHANGED <<is_running, frame_queue, stream_threads, display_threads,
                   action_threads, clock, emitted, cooldown_vars,
                   camera_vars, channel_vars,
                   hand_vars>>

\* save_gesture_config, the Save button
SaveGestureConfig(ok) ==
    /\ config_file' = Saved(gesture_actions, ok)
    /\ last_event' = [event |-> "save", ok |-> ok]
    /\ UNCHANGED <<is_running, frame_queue, stream_threads, display_threads,
                   action_threads, clock, emitted, gesture_actions,
                   ever_set, cooldown_vars, camera_vars, channel_vars,
                   hand_vars>>

\* reset_gesture_config, the Reset Defaults button
ResetGestureConfig(ok) ==
    /\ gesture_actions' = DEFAULT_GESTURE_ACTIONS
    /\ config_file' = Saved(gesture_actions', ok)
    /\ last_event' = [event |-> "reset"]
    /\ UNCHANGED <<is_running, frame_queue, stream_threads, display_threads,
                   action_threads, clock, emitted, ever_set, cooldown_vars,
                   camera_vars, channel_vars,
                   hand_vars>>

\* the Reload button: gesture_actions.update(load_gesture_config())
ReloadGestureConfig ==
    /\ gesture_actions' =
         DictUpdate(gesture_actions, load_gesture_config(config_file))
    /\ last_event' = [event |-> "reload"]
    /\ UNCHANGED <<is_running, frame_queue, stream_threads, display_threads,
                   action_threads, clock, emitted, config_file, ever_set,
                   cooldown_vars, camera_vars, channel_vars,
                   hand_vars>>

InitRegistry == \E file \in InitialFiles : Constructed(file)

NextRegistry ==
    \/ \E gesture \in EditGestures, action \in EditActions, ok \in BOOLEAN :
          UpdateGestureMapping(gesture, action, ok)
    \/ \E ok \in BOOLEAN : SaveGestureConfig(ok)
    \/ \E ok \in BOOLEAN : ResetGestureConfig(ok)
    \/ ReloadGestureConfig

SpecRegistry == InitRegistry /\ [][NextRegistry]_vars

\* C10: update_gesture_mapping called with an action that is not one of
\* AVAILABLE_ACTIONS, or with a gesture that is not one of the seven
\* gestures, reports InvalidMapping and leaves gesture_actions as it was.
C10_InvalidSetRejected ==
    (/\ last_event.event = "set"
     /\ \/ last_event.action \notin AVAILABLE_ACTIONS
        \/ last_event.gesture \notin Gestures)
        => /\ last_event.report = "InvalidMapping"
           /\ ~last_event.changed

\* the keys the lookup is tried with: the seven gestures, the label of a
\* frame without a gesture, and a name the program does not know
LookupKeys == Gestures \cup {"None", "wave"}

\* C11: the lookup finds an entry for each of the seven gestures, and it
\* returns 'none' for every other key that update_gesture_mapping has never
\* assigned.
C11_LookupTotal ==
    /\ \A g \in Gestures : g \in DOMAIN gesture_actions
    /\ \A k \in LookupKeys \ Gestures :
          k \notin ever_set => RegistryGet(gesture_actions, k) = "none"

\* the registry as load_gesture_config reads it back from file
AgreesWithFile(registry, file) ==
    LET back == load_gesture_config(file)
    IN  \A k \in DOMAIN registry : k \in DOMAIN back /\ back[k] = registry[k]

\* C12: saving gesture_actions and loading the file back gives the same
\* action for every key of gesture_actions, and after a save that succeeded
\* the file on disk loads back to gesture_actions.
C12_SaveLoadRoundTrip ==
    /\ AgreesWithFile(gesture_actions, Saved(gesture_actions, TRUE))
    /\ (last_event.event = "save" /\ last_event.ok)
          => AgreesWithFile(gesture_actions, config_file)

\* a registry that differs from the defaults and holds an extra key has
\* just been saved
C12_Witness ==
    /\ last_event.event = "save"
    /\ last_event.ok
    /\ "wave" \in DOMAIN gesture_actions
    /\ gesture_actions["fist"] # DEFAULT_GESTURE_ACTIONS["fist"]
    /\ config_file = JsonFile(json_dump(gesture_actions))

\* C13: the keys of gesture_actions are exactly the seven gestures.
C13_OnlyKnownKeys == DOMAIN gesture_actions = Gestures

(***************************************************************************)
(* One ingestion loop and its dispatcher                                   *)
(***************************************************************************)
\* the state after one start_stream whose probe passed
InitDispatch ==
    /\ is_running = TRUE
    /\ last_gesture_time = 0
    /\ gesture_cooldown = DefaultCooldown
    /\ current_gesture = "None"
    /\ frame_queue = <<>>
    /\ gesture_actions = DEFAULT_GESTURE_ACTIONS
    /\ config_file = AbsentFile
    /\ ever_set = {}
    /\ display_available = TRUE
    /\ display_method_var = "WebSocket"
    /\ display_method = "WebSocket"
    /\ stream_threads = <<NewStreamThread>>
    /\ display_threads = 1
    /\ action_threads = <<>>
    /\ sends = <<>>
    /\ clock = Epoch
    /\ chunks_sent = 0
    /\ stream = <<>>
    /\ images = 0
    /\ emitted = [count |-> 0, last |-> <<>>]
    /\ breaker = "closed"
    /\ landmarks = <<>>
    /\ classified = "None"
    /\ last_event = NoEvent

\* what the camera sends: images without a hand, with a fist, a pointing
\* hand and an ok sign, bytes that are no image, and an image cut short
DispatchChunks ==
    {Jpeg(0), Jpeg(1), Jpeg(2), Jpeg(3), CorruptJpeg, OpenJpeg}

NextDispatch ==
    \/ \E i \in DOMAIN stream_threads, chunk \in DispatchChunks : Recv(i, chunk)
    \/ \E i \in DOMAIN stream_threads, dt \in 0..MaxTime : Body(i, dt)
    \/ \E i \in DOMAIN stream_threads : Fire(i)
    \/ \E i \in DOMAIN stream_threads : CheckEmpty(i)
    \/ \E i \in DOMAIN stream_threads : Put(i)
    \/ DisplayPoll
    \/ \E k \in DOMAIN action_threads : ExecuteGestureAction(k)
    \/ \E n \in DOMAIN sends, outcome \in {"ok", "exception"} :
          SendNet(n, outcome)

SpecDispatch == InitDispatch /\ [][NextDispatch]_vars

\* C14: the ingestion loop does not end because one image cannot be
\* decoded or classified.
C14_FrameFailureAbsorbed ==
    ~(last_event.event = "exit" /\ last_event.how = "frame_error")

\* bytes the buffer of the ingestion loop may hold
BufferLimit == 4

\* C15: the buffer of the ingestion loop never holds more than the maximum.
C15_BufferBounded ==
    \A i \in DOMAIN stream_threads :
        Len(stream_threads[i].bytes_data) <= BufferLimit

\* the next step of the ingestion loop i past the for statement
LoopStep(i) ==
    \/ \E dt \in 0..MaxTime : Body(i, dt)
    \/ Fire(i)
    \/ CheckEmpty(i)
    \/ Put(i)

\* C16: a fire hands the action to a new thread and the loop goes on: an
\* ingestion loop that holds a chunk can always take its next step, whatever
\* the action threads and their display sends are doing, and a display send
\* is begun only by a step of an action thread, never by a step of the loop.
C16_ActionsOffTheLoop ==
    /\ [](\A i \in DOMAIN stream_threads :
            stream_threads[i].pc # "iter" => ENABLED LoopStep(i))
    /\ [](last_event.event = "fire"
            => /\ action_threads # <<>>
               /\ action_threads[Len(action_threads)].gesture =
                    last_event.gesture
               /\ action_threads[Len(action_threads)].pc = "start")
    /\ [][Len(sends') > Len(sends)
            => /\ Len(action_threads') < Len(action_threads)
               /\ stream_threads' = stream_threads]_vars

\* the display send of a fired action waits for the network while the loop
\* has decoded the frame after the one that fired
C16_Witness ==
    /\ sends # <<>>
    /\ emitted.count = 2
    /\ last_gesture_time # 0

(***************************************************************************)
(* Two ingestion loops: start, stop and start again before the first loop  *)
(* has looked at is_running                                                *)
(***************************************************************************)
\* the state after start_stream, stop_stream and start_stream, when the
\* first ingestion thread still waits for a chunk and the first presentation
\* thread has seen is_running false and returned
InitRace ==
    /\ is_running = TRUE
    /\ last_gesture_time = 0
    /\ gesture_cooldown = DefaultCooldown
    /\ current_gesture = "None"
    /\ frame_queue = <<>>
    /\ gesture_actions = DEFAULT_GESTURE_ACTIONS
    /\ config_file = AbsentFile
    /\ ever_set = {}
    /\ display_available = TRUE
    /\ display_method_var = "WebSocket"
    /\ display_method = "WebSocket"
    /\ stream_threads =
         <<[NewStreamThread EXCEPT !.stopped = TRUE], NewStreamThread>>
    /\ display_threads = 1
    /\ action_threads = <<>>
    /\ sends = <<>>
    /\ clock = Epoch
    /\ chunks_sent = 0
    /\ stream = <<>>
    /\ images = 0
    /\ emitted = [count |-> 0, last |-> <<>>]
    /\ breaker = "closed"
    /\ landmarks = <<>>
    /\ classified = "None"
    /\ last_event = NoEvent

\* what the camera sends to the two connections: a fist and an ok sign
RaceChunks == {Jpeg(1), Jpeg(3)}

NextRace ==
    \/ \E i \in DOMAIN stream_threads, chunk \in RaceChunks : Recv(i, chunk)
    \/ \E i \in DOMAIN stream_threads, dt \in 0..MaxTime : Body(i, dt)
    \/ \E i \in DOMAIN stream_threads : Fire(i)
    \/ \E i \in DOMAIN stream_threads : CheckEmpty(i)
    \/ \E i \in DOMAIN stream_threads : Put(i)
    \/ DisplayPoll
    \/ \E k \in DOMAIN action_threads : ExecuteGestureAction(k)

SpecRace == InitRace /\ [][NextRace]_vars

\* the pipeline reaches the state the two-loop specification starts in
RaceStateReached ==
    /\ is_running
    /\ display_threads = 1
    /\ chunks_sent = 0
    /\ stream_threads =
         <<[NewStreamThread EXCEPT !.stopped = TRUE], NewStreamThread>>

\* C17: a gesture that follows the fire of another gesture fires only when
\* the cooldown has passed since that fire.
C17_CooldownAcrossGestures ==
    (/\ last_event.event = "fire"
     /\ last_event.previous # 0
     /\ last_event.gesture # last_event.previous_gesture)
        => last_event.time - last_event.previous >= last_event.cooldown

(***************************************************************************)
(* Properties of the dispatcher with one ingestion loop                    *)
(***************************************************************************)
\* C18: a gesture that the registry maps to 'none' and that passes the
\* cooldown test is recorded like any fire (last_gesture_time = now,
\* current_gesture = the gesture), and its thread returns without running
\* an action body.
C18_NoneConsumesCooldown ==
    /\ (/\ last_event.event = "fire"
        /\ RegistryGet(gesture_actions, last_event.gesture) = "none")
          => /\ last_gesture_time = last_event.time
             /\ current_gesture = last_event.gesture
    /\ (last_event.event = "action" /\ last_event.action = "none")
          => last_event.body = "nothing"

\* the thread of a fired ok sign, which is mapped to 'none', has returned
C18_Witness ==
    /\ last_event.event = "action"
    /\ last_event.gesture = "ok_sign"
    /\ last_event.action = "none"
    /\ current_gesture = "ok_sign"
    /\ last_gesture_time = clock

(***************************************************************************)
(* The lifecycle with a camera that keeps streaming, under fair scheduling *)
(***************************************************************************)
\* lines 634-636: the camera delivers one more chunk, an image without a
\* hand, and the loop looks at is_running
RecvMore(i) ==
    /\ stream_threads[i].pc = "iter"
    /\ TakeChunk(i, Jpeg(0))
    /\ UNCHANGED <<is_running, frame_queue, display_threads, action_threads,
                   clock, emitted, cooldown_vars, camera_vars, channel_vars,
                   registry_vars,
                   hand_vars>>

\* a step of the ingestion thread i
StreamThreadStep(i) ==
    /\ i \in DOMAIN stream_threads
    /\ \/ RecvMore(i)
       \/ Body(i, 0)
       \/ CheckEmpty(i)
       \/ Put(i)

NextLive ==
    \/ \E reachable \in BOOLEAN : StartStream(reachable)
    \/ StopStream
    \/ \E i \in 1..MaxLoops : StreamThreadStep(i)
    \/ DisplayPoll

\* every thread that can run does run, and the camera keeps sending
SpecLive ==
    /\ Init
    /\ [][NextLive]_vars
    /\ \A i \in 1..MaxLoops : WF_vars(StreamThreadStep(i))
    /\ WF_vars(DisplayPoll)

\* an ingestion loop that was alive when a stop_stream returned is alive
StoppedLoopAlive ==
    \E i \in DOMAIN stream_threads : stream_threads[i].stopped

\* C19: once stop_stream has returned, the ingestion loops that were alive
\* at that moment all end, and so do the presentation loops, whatever calls
\* of start_stream follow (a further stop_stream sets a new term).
C19_LoopsEndAfterStop ==
    /\ StoppedLoopAlive ~> (~StoppedLoopAlive \/ last_event.event = "stop")
    /\ \A n \in 1..MaxLoops :
          (~is_running /\ display_threads = n)
             ~> (display_threads < n \/ last_event.event = "stop")

(***************************************************************************)
(* The classifier alone                                                    *)
(***************************************************************************)
\* heights of a fingertip: above, level with and below the joints
TipYs == {46, 50, 54}
\* where the index tip is, across the image: at the thumb and away from it
IndexXs == {50, 53, 57, 90}

\* the hands the classifier is tried on
Hands ==
    {Hand(ty, iy, my, ry, py, ix) :
        ty \in TipYs, iy \in TipYs, my \in TipYs, ry \in TipYs,
        py \in TipYs, ix \in IndexXs}

\* hands.process reports a hand in the next frame
ShowHand(hand) ==
    /\ landmarks = <<>>
    /\ landmarks' = hand
    /\ classified' = "unclassified"
    /\ last_event' = NoEvent
    /\ UNCHANGED <<is_running, frame_queue, stream_threads, display_threads,
                   action_threads, clock, emitted, cooldown_vars,
                   camera_vars, channel_vars, registry_vars>>

\* line 651: gesture = self.detect_gesture(hand_landmarks.landmark)
Classify ==
    /\ classified = "unclassified"
    /\ classified' = detect_gesture(landmarks)
    /\ last_event' = NoEvent
    /\ UNCHANGED <<is_running, frame_queue, stream_threads, display_threads,
                   action_threads, clock, emitted, landmarks, cooldown_vars,
                   camera_vars, channel_vars, registry_vars>>

\* a hand has been classified
Classified == landmarks # <<>> /\ classified # "unclassified"

\* the iteration of the loop is over, the next frame is awaited
NextFrame ==
    /\ Classified
    /\ landmarks' = <<>>
    /\ classified' = "None"
    /\ last_event' = NoEvent
    /\ UNCHANGED <<is_running, frame_queue, stream_threads, display_threads,
                   action_threads, clock, emitted, cooldown_vars,
                   camera_vars, channel_vars, registry_vars>>

NextClassify ==
    \/ \E hand \in Hands : ShowHand(hand)
    \/ Classify
    \/ NextFrame

SpecClassify == Init /\ [][NextClassify]_vars

\* C20: a hand whose thumb tip is above its lower joint while the index,
\* middle, ring and pinky tips are not above theirs is classified thumbs_up,
\* wherever the tips are otherwise.
C20_ThumbsUp ==
    (/\ Classified
     /\ thumb_up(landmarks)
     /\ ~index_up(landmarks) /\ ~middle_up(landmarks)
     /\ ~ring_up(landmarks) /\ ~pinky_up(landmarks))
        => classified = "thumbs_up"

\* a thumbs-up hand whose thumb and index tips are closer than the pinch
\* distance has been classified thumbs_up
C20_Witness ==
    /\ Classified
    /\ classified = "thumbs_up"
    /\ thumb_index_dist2(landmarks) < PinchDist * PinchDist


\* the ingestion loop i has just classified a frame (lines 646-654)
Detected(i) ==
    /\ i \in DOMAIN stream_threads
    /\ i \in DOMAIN stream_threads'
    /\ stream_threads[i].pc = "body"
    /\ stream_threads'[i].pc \in {"fire", "empty"}

\* the detection the loop i holds is one that must not fire: no gesture, or
\* a gesture that came before the cooldown since the last fire was over
MustNotFire(t, last) ==
    t.gesture = "None" \/ t.now - last < t.cool

\* C21: a detection whose gesture is None, or whose gesture comes while
\* now - last_gesture_time < gesture_cooldown, goes on to the frame queue
\* and leaves last_gesture_time, current_gesture and the action threads as
\* they were; and a step that changes last_gesture_time or current_gesture
\* or starts an action thread is the fire (lines 655-657) of an ingestion
\* loop whose detection passed the test of line 654.
C21_NoFireNoChange ==
    [][/\ \A i \in DOMAIN stream_threads :
             (Detected(i) /\ MustNotFire(stream_threads'[i], last_gesture_time))
                => /\ stream_threads'[i].pc = "empty"
                   /\ UNCHANGED <<last_gesture_time, current_gesture,
                                  action_threads>>
       /\ (\/ last_gesture_time' # last_gesture_time
           \/ current_gesture' # current_gesture
           \/ Len(action_threads') > Len(action_threads))
             => /\ last_event'.event = "fire"
                /\ last_event'.gesture # "None"
                /\ last_gesture_time' = last_event'.time
                /\ \E i \in DOMAIN stream_threads :
                      /\ stream_threads[i].pc = "fire"
                      /\ stream_threads'[i].pc = "empty"]_vars

\* a gesture has been detected inside the cooldown of an earlier fire and
\* the loop has gone on to the frame queue without firing
C21_Witness ==
    \E i \in DOMAIN stream_threads :
        /\ stream_threads[i].pc = "empty"
        /\ stream_threads[i].gesture # "None"
        /\ last_gesture_time # 0
        /\ stream_threads[i].now - last_gesture_time < stream_threads[i].cool
        /\ Len(action_threads) <= 1

(***************************************************************************)
(* The buffer of the ingestion loop under chunks of any content            *)
(***************************************************************************)
\* bytes in one chunk of the camera
MaxChunkBytes == 3

\* the bytes a chunk is made of: the three bytes of the markers and one
\* byte of content
Bytes == {FF, D8, D9, 0}

\* every chunk of one to MaxChunkBytes bytes
BufferChunks == UNION {[1..n -> Bytes] : n \in 1..MaxChunkBytes}

NextBuffer ==
    \/ \E i \in DOMAIN stream_threads, chunk \in BufferChunks : Recv(i, chunk)
    \/ \E i \in DOMAIN stream_threads : Body(i, 0)
    \/ \E i \in DOMAIN stream_threads : CheckEmpty(i)
    \/ \E i \in DOMAIN stream_threads : Put(i)
    \/ DisplayPoll

SpecBuffer == InitDispatch /\ [][NextBuffer]_vars

\* line 641 has just cut a jpg out of the buffer and handed it to
\* cv2.imdecode, which returned a frame or raised
Cut ==
    \/ last_event.event = "emit"
    \/ last_event.event = "exit" /\ last_event.how = "frame_error"

\* a byte run that begins with a start marker and ends with an end marker
\* that lies after the start marker
MarkedImage(jpg) ==
    /\ Len(jpg) >= 4
    /\ jpg[1] = FF /\ jpg[2] = D8
    /\ jpg[Len(jpg) - 1] = FF /\ jpg[Len(jpg)] = D9

\* rest is what follows jpg in buffer
FollowsIn(buffer, jpg, rest) ==
    \E k \in 0..Len(buffer) :
        /\ Slice(buffer, k, k + Len(jpg)) = jpg
        /\ SliceFrom(buffer, k + Len(jpg)) = rest

\* C22: every jpg the loop cuts out of its buffer begins with a start
\* marker and ends with an end marker after it, and when the loop goes on
\* its buffer holds the bytes that followed that end marker.
C22_EmittedImageMarked ==
    [][\A i \in DOMAIN stream_threads :
          (stream_threads[i].pc = "body" /\ Cut')
             => /\ MarkedImage(last_event'.jpg)
                /\ last_event'.event = "emit"
                     => FollowsIn(stream_threads[i].bytes_data
                                     \o stream_threads[i].chunk,
                                  last_event'.jpg,
                                  stream_threads'[i].bytes_data)]_vars

(***************************************************************************)
(* The frame queue between the ingestion loop and the presentation loop    *)
(***************************************************************************)
\* no ingestion loop is between the decoding of a frame and the end of
\* lines 658-659 for it
NoFrameInHand ==
    \A i \in DOMAIN stream_threads : stream_threads[i].pc \in {"iter", "body"}

\* C23: the frame the presentation loop takes from the queue is the last
\* frame the ingestion loop has decoded and taken through lines 658-659, and
\* when a frame is decoded while the queue still holds an unread one, the
\* queue holds the new frame afterwards.
C23_MostRecentFrameWins ==
    /\ (last_event.event = "show" /\ NoFrameInHand)
          => last_event.frame = emitted.last
    /\ last_event.event = "drop" => frame_queue = <<last_event.frame>>

\* the action threads that are running the action of gesture
InFlightIn(threads, gesture) ==
    {k \in DOMAIN threads :
        RegistryGet(gesture_actions, threads[k].gesture)
            = RegistryGet(gesture_actions, gesture)}

InFlight(gesture) == InFlightIn(action_threads, gesture)

\* C24: a fire starts a thread of its own whatever action threads are
\* alive: nothing makes an invocation wait for, or give way to, an earlier
\* invocation of the same action that has not returned.
C24_FireDoesNotSerialize ==
    [][last_event'.event = "fire"
          => /\ Len(action_threads') = Len(action_threads) + 1
             /\ SubSeq(action_threads', 1, Len(action_threads))
                  = action_threads
             /\ action_threads'[Len(action_threads')].gesture
                  = last_event'.gesture
             /\ Cardinality(InFlightIn(action_threads', last_event'.gesture))
                  = Cardinality(InFlightIn(action_threads,
                                           last_event'.gesture)) + 1]_vars

\* with one ingestion loop, a gesture has fired again after its cooldown
\* while the thread of its earlier fire has not returned: two invocations of
\* the same action are in flight
C24_Witness ==
    /\ Len(stream_threads) = 1
    /\ last_event.event = "fire"
    /\ last_event.previous # 0
    /\ last_event.time - last_event.previous > last_event.cooldown
    /\ Cardinality(InFlight(last_event.gesture)) = 2
    /\ \A k \in DOMAIN action_threads :
          action_threads[k].gesture = last_event.gesture

\* the first gesture in the order of the if statements whose condition the
\* hand satisfies
FirstMatch(l) ==
    LET hits == {n \in DOMAIN RuleOrder : Satisfies(l, RuleOrder[n])}
    IN  IF hits = {} THEN "None"
        ELSE RuleOrder[CHOOSE n \in hits : \A m \in hits : n <= m]

\* C25: detect_gesture returns one label, a gesture or "None"; for a hand
\* that satisfies the conditions of more than one gesture it is the gesture
\* whose if statement comes first, and "None" is returned only for a hand
\* that satisfies no condition.
C25_FirstRuleWins ==
    Classified
        => /\ classified \in Gestures \cup {"None"}
           /\ classified = FirstMatch(landmarks)
           /\ classified = "None" <=> Matching(landmarks) = {}

\* a thumbs-up hand that also satisfies the condition of pinch has been
\* classified thumbs_up
C25_Witness ==
    /\ Classified
    /\ Matching(landmarks) = {"thumbs_up", "pinch"}
    /\ classified = "thumbs_up"

\* C25 as stated: a hand that satisfies the conditions of more than one
\* gesture is classified "None".
C25_TieIsNone ==
    (Classified /\ Cardinality(Matching(landmarks)) > 1)
        => classified = "None"

(***************************************************************************)
(* The number of ingestion loops                                           *)
(***************************************************************************)
\* C26: while the stream is on, at most one thread runs
\* process_esp32_stream, whatever calls of start_stream and stop_stream
\* came before.
C26_SingleIngestionLoop ==
    is_running => Len(stream_threads) <= 1

(***************************************************************************)
(* One ingestion loop while the user edits the registry                    *)
(***************************************************************************)
\* the actions the user gives the fist in the Gesture Actions tab
RebindActions == {"none", "reset_app"}

NextRebind ==
    \/ \E i \in DOMAIN stream_threads : Recv(i, Jpeg(1))
    \/ \E i \in DOMAIN stream_threads, dt \in 0..MaxTime : Body(i, dt)
    \/ \E i \in DOMAIN stream_threads : Fire(i)
    \/ \E i \in DOMAIN stream_threads : CheckEmpty(i)
    \/ \E i \in DOMAIN stream_threads : Put(i)
    \/ DisplayPoll
    \/ \E k \in DOMAIN action_threads : ExecuteGestureAction(k)
    \/ \E action \in RebindActions : UpdateGestureMapping("fist", action, TRUE)
    \/ ResetGestureConfig(TRUE)
    \/ ReloadGestureConfig

SpecRebind == InitDispatch /\ [][NextRebind]_vars

\* C27: the action an action thread runs for a fired gesture is the action
\* gesture_actions gave that gesture when the ingestion loop evaluated
\* line 654, whatever edits of the registry came in between.
C27_ActionBoundAtFire ==
    last_event.event = "action" => last_event.action = last_event.bound
====
